---- MODULE Spec2Model ----
(***************************************************************************)
(* A model of the Markdown-to-HTML converter of md_to_pdf.py: the block    *)
(* segmenter md_to_html (a loop over the lines of the document with two    *)
(* pending buffers and a flush) and the inline formatter process_inline    *)
(* (three regular-expression substitutions).                               *)
(*                                                                         *)
(* A Python str is modelled as a sequence of one-character strings, so     *)
(* that strip, split, join, startswith and the regular expressions are     *)
(* computed character by character as the code computes them.              *)
(***************************************************************************)
EXTENDS Integers, Sequences, FiniteSets

VARIABLES
    md_text,            \* md_to_html: the argument
    lines,              \* md_to_html: md_text.split('\n')
    idx,                \* md_to_html: index of the line the for loop takes next
    html_parts,         \* md_to_html: the emitted fragments
    current_paragraph,  \* md_to_html: pending paragraph buffer (raw stripped lines)
    current_list,       \* md_to_html: pending list buffer (<li> fragments)
    pc,                 \* md_to_html: position in the function
    result,             \* md_to_html: the returned string
    text,               \* process_inline: the argument of the first call
    ret,                \* process_inline: what the first call returned
    ret2,               \* process_inline: what a second call, on ret, returned
    calls               \* process_inline: number of calls made so far

VARIABLES
    exit_code,          \* the exit code of the process, once main_pc = "exited"
    main_pc,            \* md_to_pdf.main / run_gemini_translation.main: position
    world,              \* what main finds outside: files, browser, subprocess
    args_output,        \* md_to_pdf.main: args.output
    output_path,        \* md_to_pdf.main: output_path
    md_content,         \* md_to_pdf.main: md_content
    html_body,          \* md_to_pdf.main: html_body
    success,            \* md_to_pdf.main: what generate_pdf returned
    pdf_written,        \* md_to_pdf.generate_pdf: page.pdf() wrote the file
    extracted,          \* run_gemini_translation.main: text
    returncode,         \* run_gemini_translation.main: result.returncode
    output_md_written,  \* run_gemini_translation.main: output_md was opened for writing
    retries,            \* translate_chunk_with_retry: retries
    delay,              \* translate_chunk_with_retry: delay
    attempt,            \* translate_chunk_with_retry: attempt
    responses,          \* translate_chunk_with_retry: what each call of the model gave
    sleeps,             \* translate_chunk_with_retry: the time.sleep() calls made
    translated,         \* translate_chunk_with_retry: the value returned
    retry_pc,           \* translate_chunk_with_retry: position
    chunk_input,        \* chunk_text: text
    chunk_size,         \* chunk_text: chunk_size
    start,              \* chunk_text: start
    chunks,             \* chunk_text: chunks
    chunk_pc            \* chunk_text: position

md_vars == <<md_text, lines, idx, html_parts, current_paragraph, current_list,
             pc, result>>

inline_vars == <<text, ret, ret2, calls>>

main_vars == <<exit_code, main_pc, world, args_output, output_path, md_content,
               html_body, success, pdf_written, extracted, returncode,
               output_md_written>>

retry_vars == <<retries, delay, attempt, responses, sleeps, translated, retry_pc>>

chunk_vars == <<chunk_input, chunk_size, start, chunks, chunk_pc>>

\* the variables of the programs other than the converter
other_vars == <<main_vars, retry_vars, chunk_vars>>

vars == <<md_vars, inline_vars, main_vars, retry_vars, chunk_vars>>

(***************************************************************************)
(* Bounds of the model.                                                    *)
(***************************************************************************)
\* the longest document, in lines, that Init draws
MaxLines == 3

\* the longest text, in characters, that InitInline draws
MaxTextLen == 6

(***************************************************************************)
(* Program constants.                                                      *)
(***************************************************************************)
\* the upper repetition count of #{1,6} in the heading pattern
MaxHeadingLevel == 6

\* the number of characters stripped_line[2:] drops from a list-item line
MarkerLen == 2

(***************************************************************************)
(* Characters and strings.                                                 *)
(***************************************************************************)
NL == "\n"

\* the grave accent (backtick), which a TLA+ string literal cannot hold: the
\* one character of the model that is written with a longer name
BT == "grave"

\* the characters str.strip() removes and \s matches, among those modelled
Whitespace == {" ", "\t", "\r", "\n"}

IsSpace(c) == c \in Whitespace

\* '.' of the patterns: any character but a newline
IsDot(c) == c # NL

RECURSIVE lstrip(_)
lstrip(s) ==
    IF s # <<>> /\ IsSpace(Head(s)) THEN lstrip(Tail(s)) ELSE s

RECURSIVE rstrip(_)
rstrip(s) ==
    IF s # <<>> /\ IsSpace(s[Len(s)]) THEN rstrip(SubSeq(s, 1, Len(s) - 1)) ELSE s

\* str.strip()
strip(s) == rstrip(lstrip(s))

\* str.startswith(prefix)
startswith(s, prefix) ==
    Len(prefix) <= Len(s) /\ SubSeq(s, 1, Len(prefix)) = prefix

\* sep.join(parts) for a list of strings
RECURSIVE join(_, _)
join(sep, parts) ==
    IF parts = <<>> THEN <<>>
    ELSE IF Len(parts) = 1 THEN parts[1]
    ELSE parts[1] \o sep \o join(sep, Tail(parts))

\* str.split('\n'): always at least one piece, the pieces hold no newline
RECURSIVE split(_)
split(s) ==
    LET cut == {k \in 1..Len(s) : s[k] = NL}
    IN  IF cut = {} THEN <<s>>
        ELSE LET k == CHOOSE x \in cut : \A y \in cut : x <= y
             IN  <<SubSeq(s, 1, k - 1)>> \o split(SubSeq(s, k + 1, Len(s)))

\* str(level) for a heading level
Digit(n) == <<"0", "1", "2", "3", "4", "5", "6", "7", "8", "9">>[n + 1]

(***************************************************************************)
(* re.sub(r'(d1|d2)(.*?)\1', r'<tag>\2</tag>', text).                      *)
(* alts is the alternation of group 1, in the pattern's order.             *)
(***************************************************************************)
\* the literal d matches at position i of s
MatchAt(s, i, d) ==
    i + Len(d) - 1 <= Len(s) /\ SubSeq(s, i, i + Len(d) - 1) = d

\* the closing delimiter a greedy (.*) would take: the farthest repetition of d
CloseAt_greedy(s, i, d) ==
    LET js == {j \in (i + Len(d))..Len(s) :
                  /\ MatchAt(s, j, d)
                  /\ \A k \in (i + Len(d))..(j - 1) : IsDot(s[k])}
    IN  IF js = {} THEN 0 ELSE CHOOSE j \in js : \A j2 \in js : j2 <= j

\* the closing delimiter of a pattern that lets the end of the text close a
\* span, (.*?)(\1|$)
CloseAt_orEnd(s, i, d) ==
    LET js == {j \in (i + Len(d))..Len(s) :
                  /\ MatchAt(s, j, d)
                  /\ \A k \in (i + Len(d))..(j - 1) : IsDot(s[k])}
    IN  IF js = {} THEN Len(s) + 1 ELSE CHOOSE j \in js : \A j2 \in js : j <= j2

\* where \1 matches after the lazy (.*?) that starts right behind the opening
\* delimiter d at i: the nearest repetition of d with no newline before it;
\* 0 when there is none
CloseAt(s, i, d) ==
    LET js == {j \in (i + Len(d))..Len(s) :
                  /\ MatchAt(s, j, d)
                  /\ \A k \in (i + Len(d))..(j - 1) : IsDot(s[k])}
    IN  IF js = {} THEN 0 ELSE CHOOSE j \in js : \A j2 \in js : j <= j2

\* the first alternative of group 1, from number a on, with which the pattern
\* matches at position i; 0 when the pattern does not match at i
RECURSIVE AltAt(_, _, _, _)
AltAt(s, i, alts, a) ==
    IF a > Len(alts) THEN 0
    ELSE IF MatchAt(s, i, alts[a]) /\ CloseAt(s, i, alts[a]) # 0 THEN a
    ELSE AltAt(s, i, alts, a + 1)

\* the substitution from position i on: leftmost matches, not overlapping
RECURSIVE re_sub(_, _, _, _, _)
re_sub(alts, open, close, s, i) ==
    IF i > Len(s) THEN <<>>
    ELSE LET a == AltAt(s, i, alts, 1)
         IN  IF a = 0 THEN <<s[i]>> \o re_sub(alts, open, close, s, i + 1)
             ELSE LET d == alts[a]
                      j == CloseAt(s, i, d)
                  IN  open \o SubSeq(s, i + Len(d), j - 1) \o close
                           \o re_sub(alts, open, close, s, j + Len(d))

\* the substitution of the leftmost match only, the rest of s kept
RECURSIVE re_sub_once(_, _, _, _, _)
re_sub_once(alts, open, close, s, i) ==
    IF i > Len(s) THEN <<>>
    ELSE LET a == AltAt(s, i, alts, 1)
         IN  IF a = 0 THEN <<s[i]>> \o re_sub_once(alts, open, close, s, i + 1)
             ELSE LET d == alts[a]
                      j == CloseAt(s, i, d)
                  IN  open \o SubSeq(s, i + Len(d), j - 1) \o close
                           \o SubSeq(s, j + Len(d), Len(s))

(***************************************************************************)
(* process_inline.                                                         *)
(***************************************************************************)
STRONG_OPEN == <<"<", "s", "t", "r", "o", "n", "g", ">">>

STRONG_CLOSE == <<"<", "/", "s", "t", "r", "o", "n", "g", ">">>

EM_OPEN == <<"<", "e", "m", ">">>

EM_CLOSE == <<"<", "/", "e", "m", ">">>

CODE_OPEN == <<"<", "c", "o", "d", "e", ">">>

CODE_CLOSE == <<"<", "/", "c", "o", "d", "e", ">">>

\* re.sub(r'(\*\*|__)(.*?)\1', r'<strong>\2</strong>', text)
sub_bold(t) ==
    re_sub(<< <<"*", "*">>, <<"_", "_">> >>, STRONG_OPEN, STRONG_CLOSE, t, 1)

\* the emphasis pass replacing the first match only (count=1)
sub_italic_once(t) ==
    re_sub_once(<< <<"*">>, <<"_">> >>, EM_OPEN, EM_CLOSE, t, 1)

\* re.sub(r'(\*|_)(.*?)\1', r'<em>\2</em>', text)
sub_italic(t) ==
    re_sub(<< <<"*">>, <<"_">> >>, EM_OPEN, EM_CLOSE, t, 1)

\* re.sub(r'BT(.*?)BT', r'<code>\1</code>', text), BT the grave accent
sub_code(t) ==
    re_sub(<< <<BT>> >>, CODE_OPEN, CODE_CLOSE, t, 1)

\* the passes with emphasis before strong emphasis
process_inline_emfirst(t) == sub_code(sub_bold(sub_italic(t)))

process_inline(t) == sub_code(sub_italic(sub_bold(t)))

(***************************************************************************)
(* md_to_html: the pieces of the loop body.                                *)
(***************************************************************************)
UL_OPEN == <<"<", "u", "l", ">">>

UL_CLOSE == <<"<", "/", "u", "l", ">">>

P_OPEN == <<"<", "p", ">">>

P_CLOSE == <<"<", "/", "p", ">">>

LI_OPEN == <<"<", "l", "i", ">">>

LI_CLOSE == <<"<", "/", "l", "i", ">">>

\* f"<ul>{''.join(current_list)}</ul>"
ul_fragment(list) == UL_OPEN \o join(<<>>, list) \o UL_CLOSE

\* the paragraph lines joined with nothing between them
p_content_nospace(paragraph) == strip(join(<<>>, paragraph))

\* " ".join(current_paragraph).strip()
p_content(paragraph) == strip(join(<<" ">>, paragraph))

\* f"<p>{process_inline(p_content)}</p>"
p_fragment(content) == P_OPEN \o process_inline(content) \o P_CLOSE

\* f"<h{level}>{process_inline(content)}</h{level}>"
h_fragment(level, content) ==
    <<"<", "h", Digit(level), ">">> \o process_inline(content)
        \o <<"<", "/", "h", Digit(level), ">">>

\* f"<li>{process_inline(stripped_line[2:].strip())}</li>"
li_fragment(s) ==
    LI_OPEN \o process_inline(strip(SubSeq(s, MarkerLen + 1, Len(s)))) \o LI_CLOSE

\* the longest prefix '.*' takes: up to the first newline
RECURSIVE TakeDots(_)
TakeDots(s) ==
    IF s # <<>> /\ IsDot(Head(s)) THEN <<Head(s)>> \o TakeDots(Tail(s)) ELSE <<>>

\* the levels of a pattern that allows one '#' more: ^(#{1,7})\s+
HeaderLevels_seven(s) ==
    {n \in 1..(MaxHeadingLevel + 1) :
        /\ n + 1 <= Len(s)
        /\ \A k \in 1..n : s[k] = "#"
        /\ IsSpace(s[n + 1])}

\* the levels n with which ^(#{1,6})\s+ matches s: n times '#', then whitespace
HeaderLevels(s) ==
    {n \in 1..MaxHeadingLevel :
        /\ n + 1 <= Len(s)
        /\ \A k \in 1..n : s[k] = "#"
        /\ IsSpace(s[n + 1])}

\* re.match(r'^(#{1,6})\s+(.*)', stripped_line): whether it matched, the length
\* of group 1 (the greedy #{1,6} takes the most it can) and group 2
header_match(s) ==
    LET ns == HeaderLevels(s)
    IN  IF ns = {} THEN [matched |-> FALSE, level |-> 0, content |-> <<>>]
        ELSE LET n == CHOOSE x \in ns : \A y \in ns : y <= x
             IN  [matched |-> TRUE, level |-> n,
                  content |-> TakeDots(lstrip(SubSeq(s, n + 1, Len(s))))]

\* stripped_line.startswith('- ') or stripped_line.startswith('* ')
is_list_item(s) ==
    startswith(s, <<"-", " ">>) \/ startswith(s, <<"*", " ">>)

\* the list flush without its test for an empty buffer
flush_list_unguarded(st) ==
    [st EXCEPT !.html_parts = Append(@, ul_fragment(st.current_list)),
               !.current_list = <<>>]

\* flush(), first half: the list buffer
flush_list(st) ==
    IF st.current_list # <<>>
    THEN [st EXCEPT !.html_parts = Append(@, ul_fragment(st.current_list)),
                    !.current_list = <<>>]
    ELSE st

\* the paragraph flush without its tests for an empty buffer and empty content
flush_paragraph_unguarded(st) ==
    [st EXCEPT !.html_parts = Append(@, p_fragment(p_content(st.current_paragraph))),
               !.current_paragraph = <<>>]

\* the paragraph flush formatting each buffered line by itself before the join
flush_paragraph_perline(st) ==
    IF st.current_paragraph # <<>>
    THEN LET c == strip(join(<<" ">>, [i \in 1..Len(st.current_paragraph) |->
                                         process_inline(st.current_paragraph[i])]))
         IN  [st EXCEPT !.html_parts = IF c # <<>> THEN Append(@, P_OPEN \o c \o P_CLOSE)
                                                   ELSE @,
                        !.current_paragraph = <<>>]
    ELSE st

\* flush(), second half: the paragraph buffer
flush_paragraph(st) ==
    IF st.current_paragraph # <<>>
    THEN LET c == p_content(st.current_paragraph)
         IN  [st EXCEPT !.html_parts = IF c # <<>> THEN Append(@, p_fragment(c)) ELSE @,
                        !.current_paragraph = <<>>]
    ELSE st

flush(st) == flush_paragraph(flush_list(st))

\* the heading branch with the heading appended before the flush
header_step_early(st, m) ==
    flush([st EXCEPT !.html_parts = Append(@, h_fragment(m.level, strip(m.content)))])

\* the heading branch of the loop body
header_step(st, m) ==
    LET f == flush(st)
    IN  [f EXCEPT !.html_parts = Append(@, h_fragment(m.level, strip(m.content)))]

\* the list-item branch without its flush of a pending paragraph
list_item_step_noflush(st, s) ==
    [st EXCEPT !.current_list = Append(@, li_fragment(s))]

\* the list-item branch flushing whatever is pending
list_item_step_alwaysflush(st, s) ==
    [flush(st) EXCEPT !.current_list = Append(@, li_fragment(s))]

\* the list-item branch of the loop body
list_item_step(st, s) ==
    LET f == IF st.current_paragraph # <<>> THEN flush(st) ELSE st
    IN  [f EXCEPT !.current_list = Append(@, li_fragment(s))]

\* the text branch without its flush of a pending list
text_step_noflush(st, s) ==
    [st EXCEPT !.current_paragraph = Append(@, s)]

\* the rest of the loop body: a text line
text_step(st, s) ==
    LET f == IF st.current_list # <<>> THEN flush(st) ELSE st
    IN  [f EXCEPT !.current_paragraph = Append(@, s)]

\* the body of the for loop on one line
line_step(st, line) ==
    LET s == strip(line)
    IN  IF s = <<>> THEN flush(st)
        ELSE IF header_match(s).matched THEN header_step(st, header_match(s))
        ELSE IF is_list_item(s) THEN list_item_step(st, s)
        ELSE text_step(st, s)

\* the for loop from line k of ls on
RECURSIVE run_lines(_, _, _)
run_lines(st, ls, k) ==
    IF k > Len(ls) THEN st ELSE run_lines(line_step(st, ls[k]), ls, k + 1)

\* md_to_html as a function of its argument
md_to_html(t) ==
    LET st0 == [html_parts |-> <<>>, current_paragraph |-> <<>>, current_list |-> <<>>]
    IN  join(<<NL>>, flush(run_lines(st0, split(t), 1)).html_parts)

(***************************************************************************)
(* The inputs.                                                             *)
(***************************************************************************)
RECURSIVE Hashes(_)
Hashes(n) == IF n = 0 THEN <<>> ELSE <<"#">> \o Hashes(n - 1)

\* the lines documents are made of: blank and whitespace-only lines, headings
\* of the least, the greatest and one more than the greatest level, a '#' with
\* no whitespace behind it, list items with either marker, and text lines,
\* some with emphasis and surrounding whitespace
LinePool ==
    { <<>>, <<" ", "\t">> }
    \cup { Hashes(n) \o <<" ", "T">> : n \in {1, MaxHeadingLevel, MaxHeadingLevel + 1} }
    \cup { <<"#", "T">>, <<"#", "\t", " ", "*", "T", "*", " ">> }
    \cup { <<"-", " ", "a">>, <<" ", "*", " ", " ", "_", "b", "_">> }
    \cup { <<"_", "a", "_">>, <<" ", "b", " ", "c", " ">>, <<"*", "*", "a">>,
           <<"b", "*", "*">> }

\* the documents: 1 to MaxLines lines joined by newlines (one empty line is
\* the empty document)
Documents ==
    { join(<<NL>>, ls) : ls \in UNION { [1..n -> LinePool] : n \in 1..MaxLines } }

InlineAlphabet == {"*", "_", BT, "a"}

SampleText ==
    <<"*", "*", "b", "o", "l", "d", "*", "*", " ", "a", "n", "d", " ", "*", "i", "t",
      "a", "l", "i", "c", "*", " ", "a", "n", "d", " ", BT, "c", "o", "d", "e", BT>>

\* texts of two strong spans, d x d y d z d, with "**a** and **b**" among them
TwoSpanTexts ==
    { d \o x \o d \o y \o d \o z \o d :
        d \in { <<"*", "*">>, <<"_", "_">> },
        x \in { <<"a">>, <<>> },
        y \in { <<" ", "a", "n", "d", " ">>, <<"a">>, <<>> },
        z \in { <<"b">>, <<>> } }

\* the texts process_inline is called on: block text, which holds no newline
InlineTexts ==
    UNION { [1..n -> InlineAlphabet] : n \in 0..MaxTextLen }
        \cup { SampleText } \cup TwoSpanTexts

(***************************************************************************)
(* The variables of a program that is not the one running.                 *)
(***************************************************************************)
\* Python's None
None == [type |-> "NoneType"]

\* a Python str, as the sequence of its characters
Str(s) == [type |-> "str", value |-> s]

\* a Python bool
Bool(b) == [type |-> "bool", value |-> b]

\* a Python int
PyInt(n) == [type |-> "int", value |-> n]

\* a call that raises an Exception instead of returning
Raises == [type |-> "Exception"]

MdIdle ==
    /\ md_text = <<>>
    /\ lines = <<>>
    /\ idx = 0
    /\ html_parts = <<>>
    /\ current_paragraph = <<>>
    /\ current_list = <<>>
    /\ pc = "idle"
    /\ result = <<>>

InlineIdle ==
    /\ text = <<>>
    /\ ret = <<>>
    /\ ret2 = <<>>
    /\ calls = 0

MainIdle ==
    /\ exit_code = 0
    /\ main_pc = "idle"
    /\ world = None
    /\ args_output = None
    /\ output_path = None
    /\ md_content = None
    /\ html_body = None
    /\ success = None
    /\ pdf_written = FALSE
    /\ extracted = None
    /\ returncode = None
    /\ output_md_written = FALSE

RetryIdle ==
    /\ retries = 0
    /\ delay = 0
    /\ attempt = 0
    /\ responses = <<>>
    /\ sleeps = <<>>
    /\ translated = None
    /\ retry_pc = "idle"

ChunkIdle ==
    /\ chunk_input = <<>>
    /\ chunk_size = 0
    /\ start = 0
    /\ chunks = <<>>
    /\ chunk_pc = "idle"

(***************************************************************************)
(* md_to_html as a state machine: one action per branch of the loop body.  *)
(***************************************************************************)
St ==
    [html_parts |-> html_parts, current_paragraph |-> current_paragraph,
     current_list |-> current_list]

SetSt(st) ==
    /\ html_parts' = st.html_parts
    /\ current_paragraph' = st.current_paragraph
    /\ current_list' = st.current_list

stripped_line == strip(lines[idx])

InLoop == pc = "loop" /\ idx <= Len(lines)

Init ==
    /\ md_text \in Documents
    /\ lines = <<>>
    /\ idx = 0
    /\ html_parts = <<>>
    /\ current_paragraph = <<>>
    /\ current_list = <<>>
    /\ pc = "start"
    /\ result = <<>>
    /\ text = <<>>
    /\ ret = <<>>
    /\ ret2 = <<>>
    /\ calls = 0
    /\ MainIdle
    /\ RetryIdle
    /\ ChunkIdle

\* html_parts = []; lines = md_text.split('\n'); the two buffers = []
Begin ==
    /\ pc = "start"
    /\ lines' = split(md_text)
    /\ idx' = 1
    /\ html_parts' = <<>>
    /\ current_paragraph' = <<>>
    /\ current_list' = <<>>
    /\ pc' = "loop"
    /\ UNCHANGED <<md_text, result, inline_vars, other_vars>>

\* if not stripped_line: flush(); continue
BlankLine ==
    /\ InLoop
    /\ stripped_line = <<>>
    /\ SetSt(flush(St))
    /\ idx' = idx + 1
    /\ UNCHANGED <<md_text, lines, pc, result, inline_vars, other_vars>>

\* if header_match: flush(); html_parts.append(<h..>); continue
HeaderLine ==
    /\ InLoop
    /\ stripped_line # <<>>
    /\ header_match(stripped_line).matched
    /\ SetSt(header_step(St, header_match(stripped_line)))
    /\ idx' = idx + 1
    /\ UNCHANGED <<md_text, lines, pc, result, inline_vars, other_vars>>

\* a list item: flush a pending paragraph, append the <li>; continue
ListItemLine ==
    /\ InLoop
    /\ stripped_line # <<>>
    /\ ~header_match(stripped_line).matched
    /\ is_list_item(stripped_line)
    /\ SetSt(list_item_step(St, stripped_line))
    /\ idx' = idx + 1
    /\ UNCHANGED <<md_text, lines, pc, result, inline_vars, other_vars>>

\* a text line: flush a pending list, append the line to the paragraph
TextLine ==
    /\ InLoop
    /\ stripped_line # <<>>
    /\ ~header_match(stripped_line).matched
    /\ ~is_list_item(stripped_line)
    /\ SetSt(text_step(St, stripped_line))
    /\ idx' = idx + 1
    /\ UNCHANGED <<md_text, lines, pc, result, inline_vars, other_vars>>

\* the loop left with no flush behind it
FinalFlush_skipped ==
    /\ pc = "loop"
    /\ idx > Len(lines)
    /\ pc' = "flushed"
    /\ UNCHANGED <<md_text, lines, idx, html_parts, current_paragraph,
                   current_list, result, inline_vars, other_vars>>

\* the flush after the loop
FinalFlush ==
    /\ pc = "loop"
    /\ idx > Len(lines)
    /\ SetSt(flush(St))
    /\ pc' = "flushed"
    /\ UNCHANGED <<md_text, lines, idx, result, inline_vars, other_vars>>

\* return "\n".join(html_parts)
Return ==
    /\ pc = "flushed"
    /\ result' = join(<<NL>>, html_parts)
    /\ pc' = "done"
    /\ UNCHANGED <<md_text, lines, idx, html_parts, current_paragraph,
                   current_list, inline_vars, other_vars>>

Next ==
    \/ Begin
    \/ BlankLine
    \/ HeaderLine
    \/ ListItemLine
    \/ TextLine
    \/ FinalFlush
    \/ Return

Spec == Init /\ [][Next]_vars

(***************************************************************************)
(* process_inline as a pure function: called on a text, and once more on   *)
(* what it returned.                                                       *)
(***************************************************************************)
InitInline ==
    /\ text \in InlineTexts
    /\ ret = <<>>
    /\ ret2 = <<>>
    /\ calls = 0
    /\ md_text = <<>>
    /\ lines = <<>>
    /\ idx = 0
    /\ html_parts = <<>>
    /\ current_paragraph = <<>>
    /\ current_list = <<>>
    /\ pc = "inline"
    /\ result = <<>>
    /\ MainIdle
    /\ RetryIdle
    /\ ChunkIdle

CallInline ==
    /\ pc = "inline"
    /\ calls = 0
    /\ ret' = process_inline(text)
    /\ calls' = 1
    /\ UNCHANGED <<text, ret2, md_vars, other_vars>>

CallInlineAgain ==
    /\ pc = "inline"
    /\ calls = 1
    /\ ret2' = process_inline(ret)
    /\ calls' = 2
    /\ UNCHANGED <<text, ret, md_vars, other_vars>>

NextInline ==
    \/ CallInline
    \/ CallInlineAgain

SpecInline == InitInline /\ [][NextInline]_vars

(***************************************************************************)
(* md_to_pdf.main, from the point where the arguments are parsed.  The     *)
(* world holds what the run finds outside the program: whether the input   *)
(* file exists, whether it can be opened and decoded, what it holds, and   *)
(* the call of Playwright that raises, if one does.                        *)
(***************************************************************************)
MainMaxLines == 1

MainDocuments ==
    { join(<<NL>>, ls) : ls \in UNION { [1..n -> LinePool] : n \in 1..MainMaxLines } }

\* the calls generate_pdf makes inside its try block, in order
PlaywrightCalls == <<"launch", "set_content", "pdf", "close">>

PlaywrightOutcomes == {"ok"} \cup { PlaywrightCalls[k] : k \in 1..Len(PlaywrightCalls) }

PdfWorlds ==
    [ exists : BOOLEAN, readable : BOOLEAN, content : MainDocuments,
      playwright : PlaywrightOutcomes ]

\* os.path.abspath(args.input_file), in the pieces main takes it apart into
input_path == [folder |-> <<"/", "d">>, stem |-> <<"i", "n">>, ext |-> <<".", "m", "d">>]

PdfExt == <<".", "p", "d", "f">>

OutputArgs ==
    { None, Str(<<>>), Str(<<"o">>), Str(<<"o">> \o PdfExt), Str(<<"o", ".", "P", "D", "F">>) }

\* str.lower(), on the characters of the output names
lower(s) ==
    [k \in 1..Len(s) |->
        IF s[k] = "P" THEN "p" ELSE IF s[k] = "D" THEN "d" ELSE IF s[k] = "F" THEN "f"
        ELSE s[k]]

endswith(s, suffix) ==
    Len(suffix) <= Len(s) /\ SubSeq(s, Len(s) - Len(suffix) + 1, Len(s)) = suffix

\* the "Determine output path" block of main
determine_output_path(output) ==
    IF output # None /\ output.value # <<>>
    THEN IF ~endswith(lower(output.value), PdfExt) THEN Str(output.value \o PdfExt)
         ELSE output
    ELSE Str(input_path.folder \o <<"/">> \o input_path.stem \o PdfExt)

\* generate_pdf: True when no call raised, False when one did; the file is
\* on disk once page.pdf() has returned
generate_pdf(playwright) ==
    [ returned |-> playwright = "ok",
      written |-> playwright \in {"ok", "close"} ]

InitMdToPdf ==
    /\ world \in PdfWorlds
    /\ args_output \in OutputArgs
    /\ main_pc = "start"
    /\ exit_code = 0
    /\ output_path = None
    /\ md_content = None
    /\ html_body = None
    /\ success = None
    /\ pdf_written = FALSE
    /\ extracted = None
    /\ returncode = None
    /\ output_md_written = FALSE
    /\ MdIdle
    /\ InlineIdle
    /\ RetryIdle
    /\ ChunkIdle

\* if not os.path.exists(input_path): sys.exit(1)
MainNotFound ==
    /\ main_pc = "start"
    /\ ~world.exists
    /\ exit_code' = 1
    /\ main_pc' = "exited"
    /\ UNCHANGED <<world, args_output, output_path, md_content, html_body, success,
                   pdf_written, extracted, returncode, output_md_written>>
    /\ UNCHANGED <<md_vars, inline_vars, retry_vars, chunk_vars>>

MainOutputPath ==
    /\ main_pc = "start"
    /\ world.exists
    /\ output_path' = determine_output_path(args_output)
    /\ main_pc' = "try"
    /\ UNCHANGED <<exit_code, world, args_output, md_content, html_body, success,
                   pdf_written, extracted, returncode, output_md_written>>
    /\ UNCHANGED <<md_vars, inline_vars, retry_vars, chunk_vars>>

\* open() or f.read() raises: except Exception, sys.exit(1)
MainReadFails ==
    /\ main_pc = "try"
    /\ ~world.readable
    /\ exit_code' = 1
    /\ main_pc' = "exited"
    /\ UNCHANGED <<world, args_output, output_path, md_content, html_body, success,
                   pdf_written, extracted, returncode, output_md_written>>
    /\ UNCHANGED <<md_vars, inline_vars, retry_vars, chunk_vars>>

MainRead ==
    /\ main_pc = "try"
    /\ world.readable
    /\ md_content' = Str(world.content)
    /\ main_pc' = "read"
    /\ UNCHANGED <<exit_code, world, args_output, output_path, html_body, success,
                   pdf_written, extracted, returncode, output_md_written>>
    /\ UNCHANGED <<md_vars, inline_vars, retry_vars, chunk_vars>>

MainConvert ==
    /\ main_pc = "read"
    /\ html_body' = Str(md_to_html(md_content.value))
    /\ main_pc' = "converted"
    /\ UNCHANGED <<exit_code, world, args_output, output_path, md_content, success,
                   pdf_written, extracted, returncode, output_md_written>>
    /\ UNCHANGED <<md_vars, inline_vars, retry_vars, chunk_vars>>

\* success = generate_pdf(full_html, output_path)
MainGenerate ==
    /\ main_pc = "converted"
    /\ success' = Bool(generate_pdf(world.playwright).returned)
    /\ pdf_written' = generate_pdf(world.playwright).written
    /\ main_pc' = "generated"
    /\ UNCHANGED <<exit_code, world, args_output, output_path, md_content, html_body,
                   extracted, returncode, output_md_written>>
    /\ UNCHANGED <<md_vars, inline_vars, retry_vars, chunk_vars>>

\* sys.exit(0) raises SystemExit, which except Exception lets through
MainExitSuccess_caught ==
    /\ main_pc = "generated"
    /\ success = Bool(TRUE)
    /\ exit_code' = 1
    /\ main_pc' = "exited"
    /\ UNCHANGED <<world, args_output, output_path, md_content, html_body, success,
                   pdf_written, extracted, returncode, output_md_written>>
    /\ UNCHANGED <<md_vars, inline_vars, retry_vars, chunk_vars>>

MainExitSuccess ==
    /\ main_pc = "generated"
    /\ success = Bool(TRUE)
    /\ exit_code' = 0
    /\ main_pc' = "exited"
    /\ UNCHANGED <<world, args_output, output_path, md_content, html_body, success,
                   pdf_written, extracted, returncode, output_md_written>>
    /\ UNCHANGED <<md_vars, inline_vars, retry_vars, chunk_vars>>

MainExitFailure ==
    /\ main_pc = "generated"
    /\ success = Bool(FALSE)
    /\ exit_code' = 1
    /\ main_pc' = "exited"
    /\ UNCHANGED <<world, args_output, output_path, md_content, html_body, success,
                   pdf_written, extracted, returncode, output_md_written>>
    /\ UNCHANGED <<md_vars, inline_vars, retry_vars, chunk_vars>>

NextMdToPdf ==
    \/ MainNotFound
    \/ MainOutputPath
    \/ MainReadFails
    \/ MainRead
    \/ MainConvert
    \/ MainGenerate
    \/ MainExitSuccess
    \/ MainExitFailure

SpecMdToPdf == InitMdToPdf /\ [][NextMdToPdf]_vars

(***************************************************************************)
(* run_gemini_translation.main, from the point where the arguments are     *)
(* parsed.  The world holds whether the PDF and the output folder exist,   *)
(* whether os.makedirs and open(output_md, "w") raise, what fitz gives for *)
(* the PDF, and what running the gemini command gives.                     *)
(***************************************************************************)
GeminiMaxPages == 2

\* page.get_text() of a page
PageTexts == { <<>>, <<" ">>, <<"T", NL>> }

\* the PDF as fitz reads it: it raises, or it gives the pages
PdfReadings ==
    {Raises} \cup { [type |-> "Document", pages |-> p] :
                        p \in UNION { [1..n -> PageTexts] : n \in 0..GeminiMaxPages } }

GeminiMaxReturncode == 2

\* subprocess.run raises (the command cannot be started) or gives a return code
GeminiOutcomes == {Raises} \cup { PyInt(n) : n \in 0..GeminiMaxReturncode }

GeminiWorlds ==
    [ pdf_exists : BOOLEAN, dir_exists : BOOLEAN, makedirs_raises : BOOLEAN,
      pdf : PdfReadings, open_raises : BOOLEAN, gemini : GeminiOutcomes ]

\* text += page.get_text() + "\n", over the pages
RECURSIVE page_texts(_)
page_texts(pages) ==
    IF pages = <<>> THEN <<>>
    ELSE pages[1] \o <<NL>> \o page_texts(Tail(pages))

extract_text(pdf) ==
    IF pdf = Raises THEN None ELSE Str(strip(page_texts(pdf.pages)))

InitGemini ==
    /\ world \in GeminiWorlds
    /\ main_pc = "start"
    /\ exit_code = 0
    /\ extracted = None
    /\ returncode = None
    /\ output_md_written = FALSE
    /\ args_output = None
    /\ output_path = None
    /\ md_content = None
    /\ html_body = None
    /\ success = None
    /\ pdf_written = FALSE
    /\ MdIdle
    /\ InlineIdle
    /\ RetryIdle
    /\ ChunkIdle

\* if not os.path.exists(pdf_path): sys.exit(1)
GeminiPdfNotFound ==
    /\ main_pc = "start"
    /\ ~world.pdf_exists
    /\ exit_code' = 1
    /\ main_pc' = "exited"
    /\ UNCHANGED <<world, extracted, returncode, output_md_written>>
    /\ UNCHANGED <<args_output, output_path, md_content, html_body, success, pdf_written>>
    /\ UNCHANGED <<md_vars, inline_vars, retry_vars, chunk_vars>>

\* os.makedirs raises outside any try: the interpreter ends with status 1
GeminiMakedirsFails ==
    /\ main_pc = "start"
    /\ world.pdf_exists
    /\ ~world.dir_exists /\ world.makedirs_raises
    /\ exit_code' = 1
    /\ main_pc' = "exited"
    /\ UNCHANGED <<world, extracted, returncode, output_md_written>>
    /\ UNCHANGED <<args_output, output_path, md_content, html_body, success, pdf_written>>
    /\ UNCHANGED <<md_vars, inline_vars, retry_vars, chunk_vars>>

\* text = extract_text(pdf_path)
GeminiExtract ==
    /\ main_pc = "start"
    /\ world.pdf_exists
    /\ world.dir_exists \/ ~world.makedirs_raises
    /\ extracted' = extract_text(world.pdf)
    /\ main_pc' = "extracted"
    /\ UNCHANGED <<exit_code, world, returncode, output_md_written>>
    /\ UNCHANGED <<args_output, output_path, md_content, html_body, success, pdf_written>>
    /\ UNCHANGED <<md_vars, inline_vars, retry_vars, chunk_vars>>

\* if not text: sys.exit(1)
GeminiNoText ==
    /\ main_pc = "extracted"
    /\ extracted \in {None, Str(<<>>)}
    /\ exit_code' = 1
    /\ main_pc' = "exited"
    /\ UNCHANGED <<world, extracted, returncode, output_md_written>>
    /\ UNCHANGED <<args_output, output_path, md_content, html_body, success, pdf_written>>
    /\ UNCHANGED <<md_vars, inline_vars, retry_vars, chunk_vars>>

\* open(output_md, "w") raises: except Exception prints, and main returns
GeminiOpenFails ==
    /\ main_pc = "extracted"
    /\ extracted \notin {None, Str(<<>>)}
    /\ world.open_raises
    /\ exit_code' = 0
    /\ main_pc' = "exited"
    /\ UNCHANGED <<world, extracted, returncode, output_md_written>>
    /\ UNCHANGED <<args_output, output_path, md_content, html_body, success, pdf_written>>
    /\ UNCHANGED <<md_vars, inline_vars, retry_vars, chunk_vars>>

\* subprocess.run raises: except Exception prints, and main returns
GeminiLaunchFails ==
    /\ main_pc = "extracted"
    /\ extracted \notin {None, Str(<<>>)}
    /\ ~world.open_raises
    /\ world.gemini = Raises
    /\ output_md_written' = TRUE
    /\ exit_code' = 0
    /\ main_pc' = "exited"
    /\ UNCHANGED <<world, extracted, returncode>>
    /\ UNCHANGED <<args_output, output_path, md_content, html_body, success, pdf_written>>
    /\ UNCHANGED <<md_vars, inline_vars, retry_vars, chunk_vars>>

\* result = subprocess.run(["gemini", "-p", full_prompt, "-y"], stdout=f, ...)
GeminiRun ==
    /\ main_pc = "extracted"
    /\ extracted \notin {None, Str(<<>>)}
    /\ ~world.open_raises
    /\ world.gemini # Raises
    /\ output_md_written' = TRUE
    /\ returncode' = world.gemini
    /\ main_pc' = "ran"
    /\ UNCHANGED <<exit_code, world, extracted>>
    /\ UNCHANGED <<args_output, output_path, md_content, html_body, success, pdf_written>>
    /\ UNCHANGED <<md_vars, inline_vars, retry_vars, chunk_vars>>

\* returncode == 0: prints the success message, and main returns
GeminiSuccess ==
    /\ main_pc = "ran"
    /\ returncode = PyInt(0)
    /\ exit_code' = 0
    /\ main_pc' = "exited"
    /\ UNCHANGED <<world, extracted, returncode, output_md_written>>
    /\ UNCHANGED <<args_output, output_path, md_content, html_body, success, pdf_written>>
    /\ UNCHANGED <<md_vars, inline_vars, retry_vars, chunk_vars>>

\* returncode != 0: prints the error and stderr, and main returns
GeminiError ==
    /\ main_pc = "ran"
    /\ returncode # PyInt(0)
    /\ exit_code' = 0
    /\ main_pc' = "exited"
    /\ UNCHANGED <<world, extracted, returncode, output_md_written>>
    /\ UNCHANGED <<args_output, output_path, md_content, html_body, success, pdf_written>>
    /\ UNCHANGED <<md_vars, inline_vars, retry_vars, chunk_vars>>

NextGemini ==
    \/ GeminiPdfNotFound
    \/ GeminiMakedirsFails
    \/ GeminiExtract
    \/ GeminiNoText
    \/ GeminiOpenFails
    \/ GeminiLaunchFails
    \/ GeminiRun
    \/ GeminiSuccess
    \/ GeminiError

SpecGemini == InitGemini /\ [][NextGemini]_vars

(***************************************************************************)
(* translate_chunk_with_retry.  Each call of model.generate_content gives  *)
(* a response with a text, or raises an exception with a message; the      *)
(* calls made and the sleeps taken are kept in order.  attempt is the      *)
(* index the for loop takes next, retries when the range is used up.       *)
(***************************************************************************)
MaxRetries == 5

MaxDelay == 1

\* def translate_chunk_with_retry(chunk, retries=5, delay=10)
DefaultRetries == 5

DefaultDelay == 10

RetriesValues == 0..MaxRetries \cup {DefaultRetries}

DelayValues == 0..MaxDelay \cup {DefaultDelay}

\* an exception, with what str(e) gives
Exception(message) == [type |-> "Exception", message |-> message]

\* str(e) of the exceptions a call raises
ErrorMessages ==
    { <<"4", "2", "9", " ", "q">>, <<"e", "1", "4", "2", "9">>, <<"5", "0", "0">>,
      <<"4", "2", "x", "9">> }

\* response.text of the responses a call returns
ResponseTexts == { <<"t">>, <<>> }

\* sub in s, for two Python strings
str_in_any(sub, s) == TRUE

str_in(sub, s) ==
    \E k \in 0..(Len(s) - Len(sub)) : SubSeq(s, k + 1, k + Len(sub)) = sub

\* wait_time = delay * (2 ** attempt)
wait_time_linear(d, k) == d * (k + 1)

wait_time(d, k) == d * (2 ^ k)

InitRetry ==
    /\ retries \in RetriesValues
    /\ delay \in DelayValues
    /\ attempt = 0
    /\ responses = <<>>
    /\ sleeps = <<>>
    /\ translated = None
    /\ retry_pc = "loop"
    /\ MdIdle
    /\ InlineIdle
    /\ MainIdle
    /\ ChunkIdle

\* response = model.generate_content(prompt + chunk); return response.text
RetryReturnText ==
    /\ retry_pc = "loop"
    /\ attempt < retries
    /\ \E t \in ResponseTexts :
          /\ responses' = Append(responses, Str(t))
          /\ translated' = Str(t)
    /\ retry_pc' = "done"
    /\ UNCHANGED <<retries, delay, attempt, sleeps>>
    /\ UNCHANGED <<md_vars, inline_vars, main_vars, chunk_vars>>

\* except Exception as e, "429" in str(e): time.sleep(wait_time), next attempt
RetryRateLimited ==
    /\ retry_pc = "loop"
    /\ attempt < retries
    /\ \E m \in ErrorMessages :
          /\ str_in(<<"4", "2", "9">>, m)
          /\ responses' = Append(responses, Exception(m))
    /\ sleeps' = Append(sleeps, wait_time(delay, attempt))
    /\ attempt' = attempt + 1
    /\ UNCHANGED <<retries, delay, translated, retry_pc>>
    /\ UNCHANGED <<md_vars, inline_vars, main_vars, chunk_vars>>

\* except Exception as e, any other message: return None
RetryOtherError ==
    /\ retry_pc = "loop"
    /\ attempt < retries
    /\ \E m \in ErrorMessages :
          /\ ~str_in(<<"4", "2", "9">>, m)
          /\ responses' = Append(responses, Exception(m))
    /\ translated' = None
    /\ retry_pc' = "done"
    /\ UNCHANGED <<retries, delay, attempt, sleeps>>
    /\ UNCHANGED <<md_vars, inline_vars, main_vars, chunk_vars>>

\* the range is used up: return None
RetryExhausted ==
    /\ retry_pc = "loop"
    /\ attempt >= retries
    /\ translated' = None
    /\ retry_pc' = "done"
    /\ UNCHANGED <<retries, delay, attempt, responses, sleeps>>
    /\ UNCHANGED <<md_vars, inline_vars, main_vars, chunk_vars>>

NextRetry ==
    \/ RetryReturnText
    \/ RetryRateLimited
    \/ RetryOtherError
    \/ RetryExhausted

SpecRetry == InitRetry /\ [][NextRetry]_vars

\* a call of the model returns or raises, and the loop goes on until it returns
SpecRetryFair == SpecRetry /\ WF_vars(NextRetry)

(***************************************************************************)
(* chunk_text.  Positions are Python's: the first character of the text is *)
(* at index 0.                                                             *)
(***************************************************************************)
MaxChunkText == 7

MaxChunkSize == 5

ChunkTexts == UNION { [1..n -> {"a", NL}] : n \in 0..MaxChunkText }

ChunkSizes == 1..MaxChunkSize

\* s[lo:hi], for 0 <= lo
slice(s, lo, hi) == SubSeq(s, lo + 1, IF hi < Len(s) THEN hi ELSE Len(s))

\* s.rfind(ch, lo, hi): the highest index in lo..hi-1 that holds ch, or -1
rfind_unbounded(s, ch, lo, hi) ==
    LET found == { i \in lo..(Len(s) - 1) : s[i + 1] = ch }
    IN  IF found = {} THEN -1 ELSE CHOOSE i \in found : \A j \in found : j <= i

rfind(s, ch, lo, hi) ==
    LET top == IF hi < Len(s) THEN hi ELSE Len(s)
        found == { i \in lo..(top - 1) : s[i + 1] = ch }
    IN  IF found = {} THEN -1 ELSE CHOOSE i \in found : \A j \in found : j <= i

\* where the chunk that starts at st ends, when it is not the last one
chunk_end(s, size, st) ==
    LET end == st + size
        last_newline == rfind(s, NL, st, end)
    IN  IF last_newline # -1 /\ last_newline > st + (size \div 2)
        THEN last_newline + 1
        ELSE end

InitChunk ==
    /\ chunk_input \in ChunkTexts
    /\ chunk_size \in ChunkSizes
    /\ start = 0
    /\ chunks = <<>>
    /\ chunk_pc = "loop"
    /\ MdIdle
    /\ InlineIdle
    /\ MainIdle
    /\ RetryIdle

\* if end >= len(text): chunks.append(text[start:]); break
ChunkLast ==
    /\ chunk_pc = "loop"
    /\ start < Len(chunk_input)
    /\ start + chunk_size >= Len(chunk_input)
    /\ chunks' = Append(chunks, slice(chunk_input, start, Len(chunk_input)))
    /\ chunk_pc' = "done"
    /\ UNCHANGED <<chunk_input, chunk_size, start>>
    /\ UNCHANGED <<md_vars, inline_vars, main_vars, retry_vars>>

\* chunks.append(text[start:end]); start = end
ChunkStep ==
    /\ chunk_pc = "loop"
    /\ start < Len(chunk_input)
    /\ start + chunk_size < Len(chunk_input)
    /\ LET end == chunk_end(chunk_input, chunk_size, start)
       IN  /\ chunks' = Append(chunks, slice(chunk_input, start, end))
           /\ start' = end
    /\ UNCHANGED <<chunk_input, chunk_size, chunk_pc>>
    /\ UNCHANGED <<md_vars, inline_vars, main_vars, retry_vars>>

\* while start < len(text) is false: return chunks
ChunkReturn ==
    /\ chunk_pc = "loop"
    /\ start >= Len(chunk_input)
    /\ chunk_pc' = "done"
    /\ UNCHANGED <<chunk_input, chunk_size, start, chunks>>
    /\ UNCHANGED <<md_vars, inline_vars, main_vars, retry_vars>>

NextChunk ==
    \/ ChunkLast
    \/ ChunkStep
    \/ ChunkReturn

SpecChunk == InitChunk /\ [][NextChunk]_vars

\* the loop is plain sequential code: it goes on until it returns
SpecChunkFair == SpecChunk /\ WF_vars(NextChunk)

(***************************************************************************)
(* What the properties speak of: the classes of lines and the blocks of a  *)
(* document, stated from the line itself and not through the loop.         *)
(***************************************************************************)
IsBlankLine(l) == \A k \in 1..Len(l) : IsSpace(l[k])

\* l without its leading and trailing whitespace (l is not blank)
Trim(l) ==
    LET solid == {k \in 1..Len(l) : ~IsSpace(l[k])}
        lo == CHOOSE k \in solid : \A j \in solid : k <= j
        hi == CHOOSE k \in solid : \A j \in solid : j <= k
    IN  IF solid = {} THEN <<>> ELSE SubSeq(l, lo, hi)

\* the number of '#' characters s starts with
LeadingHashes(s) ==
    Cardinality({n \in 1..Len(s) : \A k \in 1..n : s[k] = "#"})

\* n '#' with 1 <= n <= 6, then whitespace, then text
IsHeadingLine(l) ==
    LET s == Trim(l)
        h == LeadingHashes(s)
    IN  ~IsBlankLine(l) /\ h >= 1 /\ h <= 6 /\ h < Len(s) /\ IsSpace(s[h + 1])

HeadingText(l) ==
    LET s == Trim(l)
    IN  Trim(SubSeq(s, LeadingHashes(s) + 1, Len(s)))

IsItemLine(l) ==
    LET s == Trim(l)
    IN  ~IsBlankLine(l) /\ Len(s) >= 2 /\ s[1] \in {"-", "*"} /\ s[2] = " "

ItemText(l) ==
    LET s == Trim(l)
    IN  Trim(SubSeq(s, 3, Len(s)))

LineClass(l) ==
    IF IsBlankLine(l) THEN "blank"
    ELSE IF IsHeadingLine(l) THEN "heading"
    ELSE IF IsItemLine(l) THEN "item"
    ELSE "text"

\* the last line of the run of lines of one class that holds line k
RunEnd(ls, k) ==
    LET same == {m \in k..Len(ls) : \A j \in k..m : LineClass(ls[j]) = LineClass(ls[k])}
    IN  CHOOSE m \in same : \A m2 \in same : m2 <= m

\* line k opens a block: a heading, or the first line of a maximal run of
\* list items or of text lines
StartsBlock(ls, k) ==
    \/ LineClass(ls[k]) = "heading"
    \/ /\ LineClass(ls[k]) \in {"item", "text"}
       /\ (k = 1 \/ LineClass(ls[k - 1]) # LineClass(ls[k]))

RECURSIVE Flat(_)
Flat(ss) == IF ss = <<>> THEN <<>> ELSE Head(ss) \o Flat(Tail(ss))

RECURSIVE Spaced(_)
Spaced(ss) ==
    IF ss = <<>> THEN <<>>
    ELSE IF Len(ss) = 1 THEN ss[1]
    ELSE ss[1] \o <<" ">> \o Spaced(Tail(ss))

HeadingBlock(l) ==
    LET d == Digit(LeadingHashes(Trim(l)))
    IN  <<"<", "h", d, ">">> \o process_inline(HeadingText(l)) \o <<"<", "/", "h", d, ">">>

\* one <ul> for the list items k..m: the <li> of each, in order, nothing between
ListBlock(ls, k, m) ==
    <<"<", "u", "l", ">">>
        \o Flat([j \in 1..(m - k + 1) |->
                    <<"<", "l", "i", ">">> \o process_inline(ItemText(ls[k + j - 1]))
                        \o <<"<", "/", "l", "i", ">">>])
        \o <<"<", "/", "u", "l", ">">>

\* one <p> for the text lines k..m: the stripped lines joined by single spaces
ParagraphBlock(ls, k, m) ==
    <<"<", "p", ">">>
        \o process_inline(Spaced([j \in 1..(m - k + 1) |-> Trim(ls[k + j - 1])]))
        \o <<"<", "/", "p", ">">>

BlockOf(ls, k) ==
    IF LineClass(ls[k]) = "heading" THEN HeadingBlock(ls[k])
    ELSE IF LineClass(ls[k]) = "item" THEN ListBlock(ls, k, RunEnd(ls, k))
    ELSE ParagraphBlock(ls, k, RunEnd(ls, k))

\* the blocks of the lines k.. of ls, in the order of the lines that open them
RECURSIVE BlocksFrom(_, _)
BlocksFrom(ls, k) ==
    IF k > Len(ls) THEN <<>>
    ELSE IF StartsBlock(ls, k) THEN <<BlockOf(ls, k)>> \o BlocksFrom(ls, k + 1)
    ELSE BlocksFrom(ls, k + 1)

ExpectedParts(ls) == BlocksFrom(ls, 1)

\* the kind of an emitted fragment, by its opening tag
FragmentKind(f) ==
    IF Len(f) >= 2 /\ f[1] = "<" /\ f[2] = "h" THEN "heading"
    ELSE IF Len(f) >= 2 /\ f[1] = "<" /\ f[2] = "u" THEN "item"
    ELSE "text"

CountKind(parts, kind) ==
    Cardinality({i \in 1..Len(parts) : FragmentKind(parts[i]) = kind})

\* what a step appended to html_parts
NewParts == SubSeq(html_parts', Len(html_parts) + 1, Len(html_parts'))

Returned == pc \in {"flushed", "done"}

(***************************************************************************)
(* The properties of md_to_html.                                           *)
(***************************************************************************)
\* C1: after every processed line, at most one of the pending paragraph
\* buffer and the pending list buffer is non-empty.
BuffersExclusive == ~(current_paragraph # <<>> /\ current_list # <<>>)

\* a list item has just been taken while a paragraph was pending
BuffersExclusiveWitness ==
    /\ pc = "loop"
    /\ idx = 3
    /\ LineClass(lines[1]) = "text"
    /\ LineClass(lines[2]) = "item"
    /\ current_list # <<>>
    /\ current_paragraph = <<>>

\* C2: when md_to_html returns, both buffers are empty and nothing buffered
\* was dropped: the emitted fragments are exactly the blocks of the document,
\* each list-item line and each text line in exactly one of them, the block
\* of a run that ends the document with no blank line behind it included.
NoContentLost ==
    Returned =>
        /\ current_paragraph = <<>>
        /\ current_list = <<>>
        /\ html_parts = ExpectedParts(lines)

\* a document that ends in a list item right behind a paragraph has returned
NoContentLostWitness ==
    /\ pc = "done"
    /\ Len(lines) = 3
    /\ LineClass(lines[2]) = "text"
    /\ LineClass(lines[3]) = "item"
    /\ Len(html_parts) >= 2
    /\ FragmentKind(html_parts[Len(html_parts)]) = "item"

\* the kinds of the blocks of the lines k.. of ls, in the order of the lines
\* that open them
RECURSIVE KindsFrom(_, _)
KindsFrom(ls, k) ==
    IF k > Len(ls) THEN <<>>
    ELSE IF StartsBlock(ls, k) THEN <<LineClass(ls[k])>> \o KindsFrom(ls, k + 1)
    ELSE KindsFrom(ls, k + 1)

\* the fragment of the pending buffer, which is the list if there is one
PendingBlock ==
    IF current_list # <<>>
    THEN <<"<", "u", "l", ">">> \o Flat(current_list) \o <<"<", "/", "u", "l", ">">>
    ELSE <<"<", "p", ">">> \o process_inline(Spaced(current_paragraph))
             \o <<"<", "/", "p", ">">>

IsPrefix(a, b) == Len(a) <= Len(b) /\ SubSeq(b, 1, Len(a)) = a

\* C3: the heading, list and paragraph fragments are emitted in the order of
\* the lines that triggered them: fragments are only ever added behind those
\* already emitted, the kinds of the fragments returned are those of the
\* blocks of the document in line order, and a heading line that comes right
\* behind buffered lines emits the fragment of the buffer and then the heading.
BlockOrder ==
    /\ [](Returned =>
            [i \in 1..Len(html_parts) |-> FragmentKind(html_parts[i])]
                = KindsFrom(lines, 1))
    /\ [][/\ IsPrefix(html_parts, html_parts')
          /\ (/\ InLoop
              /\ LineClass(lines[idx]) = "heading"
              /\ (current_paragraph # <<>> \/ current_list # <<>>))
             => NewParts = <<PendingBlock, HeadingBlock(lines[idx])>>]_vars

\* a heading has been taken right behind a buffered line
BlockOrderWitness ==
    /\ pc = "loop"
    /\ idx = 3
    /\ LineClass(lines[1]) \in {"item", "text"}
    /\ LineClass(lines[2]) = "heading"
    /\ Len(html_parts) = 2
    /\ FragmentKind(html_parts[1]) = LineClass(lines[1])
    /\ FragmentKind(html_parts[2]) = "heading"

HasDelimiter(t) == \E k \in 1..Len(t) : t[k] \in {"*", "_", BT}

\* C4: a stripped line is emitted as a heading exactly when it is n '#' with
\* 1 <= n <= 6, then whitespace, then text, and the fragment is then
\* <hn>text</hn> (the text inline-formatted, which leaves a text without
\* delimiters as it is); a line with 7 or more leading '#' emits no heading
\* and is appended to the paragraph buffer.
HeadingRule ==
    [][(InLoop /\ ~IsBlankLine(lines[idx])) =>
        LET s == Trim(lines[idx])
            h == LeadingHashes(s)
            d == Digit(h)
            t == Trim(SubSeq(s, h + 1, Len(s)))
        IN  IF h >= 1 /\ h <= 6 /\ h < Len(s) /\ IsSpace(s[h + 1])
            THEN /\ NewParts # <<>>
                 /\ NewParts[Len(NewParts)]
                        = <<"<", "h", d, ">">> \o process_inline(t) \o <<"<", "/", "h", d, ">">>
                 /\ ~HasDelimiter(t) =>
                        NewParts[Len(NewParts)]
                            = <<"<", "h", d, ">">> \o t \o <<"<", "/", "h", d, ">">>
                 /\ current_paragraph' = <<>>
                 /\ current_list' = <<>>
            ELSE /\ \A i \in 1..Len(NewParts) : FragmentKind(NewParts[i]) # "heading"
                 /\ h >= 7 => current_paragraph' = Append(current_paragraph, s)]_vars

\* a heading of level 6 has been emitted and a line of 7 '#' is in the
\* paragraph buffer
HeadingRuleWitness ==
    /\ pc = "loop"
    /\ idx = 3
    /\ LeadingHashes(lines[1]) = 6
    /\ LeadingHashes(lines[2]) = 7
    /\ html_parts = << <<"<", "h", "6", ">", "T", "<", "/", "h", "6", ">">> >>
    /\ current_paragraph = <<lines[2]>>

\* C5: a document whose lines are all blank (every character of it is
\* whitespace), the empty document included, returns the empty string.
BlankDocument ==
    (pc = "done" /\ \A k \in 1..Len(md_text) : IsSpace(md_text[k])) => result = <<>>

\* a document of several blank lines, one of them of whitespace, has returned
BlankDocumentWitness ==
    /\ pc = "done"
    /\ Len(lines) >= 2
    /\ \A k \in 1..Len(md_text) : IsSpace(md_text[k])
    /\ \E k \in 1..Len(md_text) : md_text[k] = " "

IsParagraphFragment(f) == FragmentKind(f) = "text"

IsListFragment(f) == FragmentKind(f) = "item"

\* the blocks of one class ("item" or "text") of the lines k.. of ls, in order
RECURSIVE RunBlocksFrom(_, _, _)
RunBlocksFrom(ls, k, class) ==
    IF k > Len(ls) THEN <<>>
    ELSE IF StartsBlock(ls, k) /\ LineClass(ls[k]) = class
         THEN <<BlockOf(ls, k)>> \o RunBlocksFrom(ls, k + 1, class)
         ELSE RunBlocksFrom(ls, k + 1, class)

\* C6: every maximal run of consecutive text lines is emitted as exactly one
\* <p> fragment, the stripped lines joined by single spaces in input order:
\* the <p> fragments returned are, one for one and in order, those of the runs.
ParagraphRuns ==
    Returned =>
        SelectSeq(html_parts, IsParagraphFragment) = RunBlocksFrom(lines, 1, "text")

\* a run of two text lines has been emitted as one paragraph
ParagraphRunsWitness ==
    /\ pc = "done"
    /\ \E k \in 1..(Len(lines) - 1) :
          /\ LineClass(lines[k]) = "text"
          /\ LineClass(lines[k + 1]) = "text"
          /\ Trim(lines[k]) # Trim(lines[k + 1])
    /\ CountKind(html_parts, "text") = 1

\* C7: every maximal run of consecutive list-item lines is emitted as exactly
\* one <ul> fragment holding one <li> per line, in order and with nothing
\* between; and taking a list-item line changes the number of <ul> fragments
\* emitted by nothing.
ListRuns ==
    /\ [](Returned =>
            SelectSeq(html_parts, IsListFragment) = RunBlocksFrom(lines, 1, "item"))
    /\ [][(InLoop /\ LineClass(lines[idx]) = "item") =>
            CountKind(html_parts', "item") = CountKind(html_parts, "item")]_vars

\* a run of two list items has been emitted as one list
ListRunsWitness ==
    /\ pc = "done"
    /\ \E k \in 1..(Len(lines) - 1) :
          /\ LineClass(lines[k]) = "item"
          /\ LineClass(lines[k + 1]) = "item"
          /\ lines[k] # lines[k + 1]
    /\ CountKind(html_parts, "item") = 1

\* C8: a switch of mode with no blank line between flushes the other buffer
\* first: a text line taken while the list buffer is non-empty emits the <ul>
\* and then starts a new paragraph with that line alone, a list-item line
\* taken while the paragraph buffer is non-empty emits the <p> and then starts
\* a new list with that item alone.
ModeSwitch ==
    [][/\ (InLoop /\ LineClass(lines[idx]) = "text" /\ current_list # <<>>) =>
            /\ NewParts = <<PendingBlock>>
            /\ FragmentKind(PendingBlock) = "item"
            /\ current_list' = <<>>
            /\ current_paragraph' = <<Trim(lines[idx])>>
       /\ (InLoop /\ LineClass(lines[idx]) = "item" /\ current_paragraph # <<>>) =>
            /\ NewParts = <<PendingBlock>>
            /\ FragmentKind(PendingBlock) = "text"
            /\ current_paragraph' = <<>>
            /\ current_list'
                  = << <<"<", "l", "i", ">">> \o process_inline(ItemText(lines[idx]))
                          \o <<"<", "/", "l", "i", ">">> >>]_vars

\* a list, then a text line, then a list item, with no blank line between:
\* both switches have been taken
ModeSwitchWitness ==
    /\ pc = "loop"
    /\ idx = 4
    /\ LineClass(lines[1]) = "item"
    /\ LineClass(lines[2]) = "text"
    /\ LineClass(lines[3]) = "item"
    /\ Len(html_parts) = 2
    /\ FragmentKind(html_parts[1]) = "item"
    /\ FragmentKind(html_parts[2]) = "text"
    /\ Len(current_list) = 1

(***************************************************************************)
(* The properties of process_inline.                                       *)
(***************************************************************************)
\* the delimiters with the tags of their spans
SpanKinds ==
    { [d |-> <<"*", "*">>, open |-> <<"<", "s", "t", "r", "o", "n", "g", ">">>,
       close |-> <<"<", "/", "s", "t", "r", "o", "n", "g", ">">>],
      [d |-> <<"_", "_">>, open |-> <<"<", "s", "t", "r", "o", "n", "g", ">">>,
       close |-> <<"<", "/", "s", "t", "r", "o", "n", "g", ">">>],
      [d |-> <<"*">>, open |-> <<"<", "e", "m", ">">>, close |-> <<"<", "/", "e", "m", ">">>],
      [d |-> <<"_">>, open |-> <<"<", "e", "m", ">">>, close |-> <<"<", "/", "e", "m", ">">>],
      [d |-> <<BT>>, open |-> <<"<", "c", "o", "d", "e", ">">>,
       close |-> <<"<", "/", "c", "o", "d", "e", ">">>] }

\* t is  pre d x d post  with the opening d at i and the closing d at j, and
\* pre, x and post hold no delimiter character
IsLoneSpan(t, d, i, j) ==
    /\ i + Len(d) <= j
    /\ j + Len(d) - 1 <= Len(t)
    /\ SubSeq(t, i, i + Len(d) - 1) = d
    /\ SubSeq(t, j, j + Len(d) - 1) = d
    /\ \A k \in 1..Len(t) :
          t[k] \in {"*", "_", BT} =>
              (k \in i..(i + Len(d) - 1) \/ k \in j..(j + Len(d) - 1))

SampleHtml ==
    <<"<", "s", "t", "r", "o", "n", "g", ">", "b", "o", "l", "d", "<", "/", "s", "t",
      "r", "o", "n", "g", ">", " ", "a", "n", "d", " ", "<", "e", "m", ">", "i", "t",
      "a", "l", "i", "c", "<", "/", "e", "m", ">", " ", "a", "n", "d", " ", "<", "c",
      "o", "d", "e", ">", "c", "o", "d", "e", "<", "/", "c", "o", "d", "e", ">">>

\* C9: strong emphasis is applied before emphasis before inline code: a span
\* **x** or __x__ with x free of delimiter characters becomes
\* <strong>x</strong> (and so no <em> markup), a span *x* or _x_ becomes
\* <em>x</em>, a span of grave accents becomes <code>x</code>, the text around
\* the span kept; and the sample text yields the sample HTML.
InlineOrder ==
    calls >= 1 =>
        /\ \A sp \in SpanKinds : \A i \in 1..Len(text) : \A j \in 1..Len(text) :
              IsLoneSpan(text, sp.d, i, j) =>
                  ret = SubSeq(text, 1, i - 1) \o sp.open
                          \o SubSeq(text, i + Len(sp.d), j - 1) \o sp.close
                          \o SubSeq(text, j + Len(sp.d), Len(text))
        /\ text = SampleText => ret = SampleHtml

\* the sample text, and a lone strong span, have been formatted
InlineOrderWitness ==
    /\ calls >= 1
    /\ \/ text = SampleText /\ ret = SampleHtml
       \/ /\ text = <<"_", "_", "a", "_", "_">>
          /\ ret = <<"<", "s", "t", "r", "o", "n", "g", ">", "a",
                     "<", "/", "s", "t", "r", "o", "n", "g", ">">>

\* C10 as stated: for every text, formatting the formatted text once more
\* does not alter it.
Idempotent == calls = 2 => ret2 = ret

MixesKinds(t) ==
    /\ \E k \in 1..Len(t) : t[k] = "*"
    /\ \E k \in 1..Len(t) : t[k] = "_"

\* C10, amended: for every text that does not hold both a '*' and a '_',
\* formatting the formatted text once more does not alter it.
IdempotentOneKind == (calls = 2 /\ ~MixesKinds(text)) => ret2 = ret

\* a text of one kind of emphasis delimiter was formatted to a text that still
\* holds a delimiter, and was formatted again
IdempotentOneKindWitness ==
    /\ calls = 2
    /\ ~MixesKinds(text)
    /\ ret # text
    /\ HasDelimiter(ret)
    /\ ret2 = ret

\* the positions of the delimiter characters of t
DelimiterPositions(t) == {k \in 1..Len(t) : t[k] \in {"*", "_", BT}}

\* t is  pre d x d y d z d post  with the four d at i1 < j1 < i2 < j2 and no
\* other delimiter character
IsTwoSpans(t, d, i1, j1, i2, j2) ==
    /\ i1 + Len(d) <= j1
    /\ j1 + Len(d) <= i2
    /\ i2 + Len(d) <= j2
    /\ j2 + Len(d) - 1 <= Len(t)
    /\ \A p \in {i1, j1, i2, j2} : SubSeq(t, p, p + Len(d) - 1) = d
    /\ \A k \in DelimiterPositions(t) :
          \E p \in {i1, j1, i2, j2} : k \in p..(p + Len(d) - 1)

\* C11: strong emphasis is matched non-greedily: in a text of two spans,
\* d x d y d z d with d one of ** and __, each opening d is paired with the
\* nearest d behind it, so the result is two <strong> elements, around x and
\* around z, with y between them, and never one <strong> around x d y d z.
NonGreedyStrong ==
    (calls >= 1 /\ Cardinality(DelimiterPositions(text)) = 8) =>
        \A d \in { <<"*", "*">>, <<"_", "_">> } :
            \A i1, j1, i2, j2 \in DelimiterPositions(text) :
                IsTwoSpans(text, d, i1, j1, i2, j2) =>
                    ret = SubSeq(text, 1, i1 - 1)
                            \o <<"<", "s", "t", "r", "o", "n", "g", ">">>
                            \o SubSeq(text, i1 + 2, j1 - 1)
                            \o <<"<", "/", "s", "t", "r", "o", "n", "g", ">">>
                            \o SubSeq(text, j1 + 2, i2 - 1)
                            \o <<"<", "s", "t", "r", "o", "n", "g", ">">>
                            \o SubSeq(text, i2 + 2, j2 - 1)
                            \o <<"<", "/", "s", "t", "r", "o", "n", "g", ">">>
                            \o SubSeq(text, j2 + 2, Len(text))

\* "**a** and **b**" has been formatted to two <strong> elements
NonGreedyStrongWitness ==
    /\ calls >= 1
    /\ text = <<"*", "*", "a", "*", "*", " ", "a", "n", "d", " ", "*", "*", "b", "*", "*">>
    /\ ret = <<"<", "s", "t", "r", "o", "n", "g", ">", "a",
               "<", "/", "s", "t", "r", "o", "n", "g", ">", " ", "a", "n", "d", " ",
               "<", "s", "t", "r", "o", "n", "g", ">", "b",
               "<", "/", "s", "t", "r", "o", "n", "g", ">">>

CountChar(t, c) == Cardinality({k \in 1..Len(t) : t[k] = c})

\* C12: unmatched delimiters stay literal: a delimiter character that occurs
\* once in the text occurs once in the result, of a delimiter character that
\* occurs an odd number of times an odd number is left, and a text whose only
\* delimiter character is one stray '*', '_' or grave accent is returned as
\* it is.
StrayDelimiterLiteral ==
    calls >= 1 =>
        /\ \A c \in {"*", "_", BT} :
              /\ CountChar(text, c) = 1 => CountChar(ret, c) = 1
              /\ CountChar(text, c) % 2 = 1 => CountChar(ret, c) % 2 = 1
        /\ Cardinality(DelimiterPositions(text)) = 1 => ret = text

\* a text with one stray delimiter between other characters, and a text of
\* three '*', have been formatted
StrayDelimiterLiteralWitness ==
    /\ calls >= 1
    /\ \/ \E c \in {"*", "_", BT} : text = <<"a", c, "a">> /\ ret = text
       \/ /\ text = <<"*", "*", "*">>
          /\ ret = <<"<", "e", "m", ">", "<", "/", "e", "m", ">", "*">>

BuffersEmpty == current_paragraph = <<>> /\ current_list = <<>>

\* ls with its line k once more behind it
RepeatLine(ls, k) == SubSeq(ls, 1, k) \o <<ls[k]>> \o SubSeq(ls, k + 1, Len(ls))

\* C13: a flush with both buffers empty emits nothing and changes no state,
\* so a blank line taken with both buffers empty (and the final flush with
\* both empty) leaves the fragments and both buffers as they are; and a blank
\* line put before the document, behind it, or once more behind one of its
\* blank lines, does not change what md_to_html returns.
BlankLinesNeutral ==
    /\ [][(/\ pc = "loop"
           /\ BuffersEmpty
           /\ (idx > Len(lines) \/ IsBlankLine(lines[idx])))
          => UNCHANGED <<html_parts, current_paragraph, current_list>>]_vars
    /\ [](pc = "done" =>
            /\ \A b \in { <<>>, <<" ", "\t">> } :
                  /\ md_to_html(b \o <<NL>> \o md_text) = result
                  /\ md_to_html(md_text \o <<NL>> \o b) = result
            /\ \A k \in 1..Len(lines) :
                  IsBlankLine(lines[k]) =>
                      md_to_html(join(<<NL>>, RepeatLine(lines, k))) = result)

\* a document with a blank line between two blocks has returned, and a blank
\* line was taken while both buffers were empty
BlankLinesNeutralWitness ==
    /\ pc = "done"
    /\ Len(lines) = 3
    /\ IsBlankLine(lines[1])
    /\ ~IsBlankLine(lines[2])
    /\ IsBlankLine(lines[3])
    /\ Len(html_parts) = 1

\* C14: a paragraph is inline-formatted once, at the flush, on the
\* space-joined text: the paragraph buffer holds the stripped lines as they
\* are, the last lines taken, and the lines "**a" and "b**" give one span,
\* <p><strong>a b</strong></p>.
ParagraphFormattedAtFlush ==
    /\ pc = "loop" =>
          /\ Len(current_paragraph) < idx
          /\ \A i \in 1..Len(current_paragraph) :
                current_paragraph[i] = Trim(lines[idx - 1 - Len(current_paragraph) + i])
    /\ (Returned /\ lines = << <<"*", "*", "a">>, <<"b", "*", "*">> >>) =>
          html_parts = << <<"<", "p", ">", "<", "s", "t", "r", "o", "n", "g", ">",
                            "a", " ", "b", "<", "/", "s", "t", "r", "o", "n", "g", ">",
                            "<", "/", "p", ">">> >>

\* the lines "**a" and "b**" have been returned as one paragraph, and a line
\* with a whole span is in the buffer unformatted
ParagraphFormattedAtFlushWitness ==
    \/ /\ pc = "done"
       /\ lines = << <<"*", "*", "a">>, <<"b", "*", "*">> >>
       /\ Len(html_parts) = 1
    \/ /\ pc = "loop"
       /\ current_paragraph = << <<"*", "*", "a">>, <<"_", "a", "_">> >>

(***************************************************************************)
(* C15.  md_to_pdf.main exits with code 0 exactly when the input file was  *)
(* found, read and converted and generate_pdf returned True, and with code *)
(* 1 on every other path: file missing, reading raises, generate_pdf       *)
(* returns False.  On exit 0 the content read is the file's, the body is   *)
(* its conversion and the PDF is on disk.                                  *)
(***************************************************************************)
MdToPdfExitCode ==
    main_pc = "exited" =>
        /\ exit_code \in {0, 1}
        /\ exit_code = 0 <=>
              (world.exists /\ world.readable /\ world.playwright = "ok")
        /\ exit_code = 0 =>
              /\ md_content = Str(world.content)
              /\ html_body = Str(join(<<NL>>, ExpectedParts(split(world.content))))
              /\ success = Bool(TRUE)
              /\ pdf_written
        /\ success = Bool(FALSE) => exit_code = 1

MdToPdfExitCodeWitness ==
    /\ main_pc = "exited"
    /\ exit_code = 0
    /\ pdf_written
    /\ html_body # Str(<<>>)
    /\ args_output = Str(<<"o">>)
    /\ output_path = Str(<<"o", ".", "p", "d", "f">>)

(***************************************************************************)
(* C16.  run_gemini_translation.main exits with code 1 on every failure of *)
(* the pipeline, the gemini command returning a non-zero code or failing   *)
(* to start included, and with code 0 only when the translation succeeded. *)
(* The code prints the error of a failed gemini run and returns, so the    *)
(* process exits with code 0: this statement does not hold.                *)
(***************************************************************************)
TranslationSucceeded ==
    /\ world.pdf_exists
    /\ world.dir_exists \/ ~world.makedirs_raises
    /\ world.pdf # Raises
    /\ strip(page_texts(world.pdf.pages)) # <<>>
    /\ ~world.open_raises
    /\ world.gemini = PyInt(0)

GeminiExitCode ==
    main_pc = "exited" =>
        /\ exit_code \in {0, 1}
        /\ exit_code = 0 <=> TranslationSucceeded

(***************************************************************************)
(* C17.  translate_chunk_with_retry retries only on rate-limit signals:    *)
(* every call but the last one made raised with a message that holds       *)
(* "429"; after a failure of another kind the value is None and no further *)
(* call is made; after a call that returned, the value is its text and no  *)
(* further call is made.                                                   *)
(***************************************************************************)
IsRateLimit(r) ==
    /\ r.type = "Exception"
    /\ \E i \in 1..(Len(r.message) - 2) :
          r.message[i] = "4" /\ r.message[i + 1] = "2" /\ r.message[i + 2] = "9"

LastResponse == responses[Len(responses)]

\* the last call made ends the function: it returned, or raised without "429"
LastCallFinal == responses # <<>> /\ ~IsRateLimit(LastResponse)

RetryOnlyOnRateLimit ==
    /\ [](\A k \in 1..(Len(responses) - 1) : IsRateLimit(responses[k]))
    /\ [](LastCallFinal =>
            /\ retry_pc = "done"
            /\ translated = IF LastResponse.type = "str" THEN LastResponse ELSE None)
    /\ [][LastCallFinal => responses' = responses]_vars

RetryOnlyOnRateLimitWitness ==
    /\ retry_pc = "done"
    /\ Len(responses) = 3
    /\ IsRateLimit(responses[1])
    /\ IsRateLimit(responses[2])
    /\ responses[3] = Exception(<<"4", "2", "x", "9">>)
    /\ translated = None
    /\ retries > 3

(***************************************************************************)
(* C18.  translate_chunk_with_retry ends after at most retries calls of    *)
(* the model; the sleep after failed attempt k, counted from 0, is         *)
(* delay * 2^k, each twice the one before; when all retries calls fail     *)
(* with rate-limit errors the value is None.                               *)
(***************************************************************************)
RECURSIVE Doubled(_, _)
Doubled(d, k) == IF k = 0 THEN d ELSE Doubled(d, k - 1) + Doubled(d, k - 1)

AllRateLimited ==
    /\ Len(responses) = retries
    /\ \A k \in 1..Len(responses) : IsRateLimit(responses[k])

RetryBounded ==
    /\ [](Len(responses) <= retries)
    /\ [](\A k \in 1..Len(sleeps) :
            /\ IsRateLimit(responses[k])
            /\ sleeps[k] = Doubled(delay, k - 1)
            /\ k > 1 => sleeps[k] = 2 * sleeps[k - 1])
    /\ [](retry_pc = "done" /\ AllRateLimited => translated = None)
    /\ <>(retry_pc = "done")

RetryBoundedWitness ==
    /\ retry_pc = "done"
    /\ retries = DefaultRetries
    /\ delay = DefaultDelay
    /\ AllRateLimited
    /\ sleeps = <<10, 20, 40, 80, 160>>
    /\ translated = None

(***************************************************************************)
(* C19.  For every text and every chunk_size >= 1, chunk_text ends, and    *)
(* the chunks it returns partition the text: put one after the other they  *)
(* are the text, each is non-empty and none is longer than chunk_size.     *)
(* While it runs, the chunks made so far are the text up to start.         *)
(***************************************************************************)
RECURSIVE Concat(_)
Concat(cs) == IF cs = <<>> THEN <<>> ELSE cs[1] \o Concat(Tail(cs))

ChunksPartition ==
    /\ [](/\ Concat(chunks) \o SubSeq(chunk_input, Len(Concat(chunks)) + 1, Len(chunk_input))
              = chunk_input
          /\ \A k \in 1..Len(chunks) :
                Len(chunks[k]) >= 1 /\ Len(chunks[k]) <= chunk_size)
    /\ [](chunk_pc = "done" => Concat(chunks) = chunk_input)
    /\ <>(chunk_pc = "done")

\* a text cut at a newline before the first chunk is full, with the rest after
ChunksPartitionWitness ==
    /\ chunk_pc = "done"
    /\ Len(chunks) >= 2
    /\ Len(chunks[1]) < chunk_size
    /\ chunks[1][Len(chunks[1])] = NL
    /\ \E k \in 1..Len(chunks[2]) : chunks[2][k] = NL

====
